---------------------------- MODULE Spec2Model ----------------------------
(***************************************************************************)
(* A model of two pieces of the searchnets experiment code:                *)
(*                                                                         *)
(*   - main() of scripts/experiment-1-searchstims/                         *)
(*     generate_source_data_csv.py: the nested loop that finds and loads   *)
(*     one results file per (net_name, method, mode), the group-by /       *)
(*     difference / sort / pivot stage, and the five to_csv calls;         *)
(*   - Trainer.from_config of searchnets/classes/trainer.py.               *)
(*                                                                         *)
(* Paths are sequences of tokens ("/" separates directories).  Accuracies  *)
(* are integers, and every mean is an exact fraction <<num, den>> in       *)
(* lowest terms, so that equal means compare equal.                        *)
(***************************************************************************)
EXTENDS Integers, Sequences, FiniteSets, TLC

VARIABLES
    source_data_root_exists, \* input: Path(source_data_root).exists()
    net_names,               \* input: list of str
    methods,                 \* input: list of str
    modes,                   \* input: list of str
    fs,                      \* input: results_gz_root, path -> rows of the file
    config,                  \* input: the arguments of Trainer.from_config
    pc,                      \* where the running function is
    i, j, k,                 \* positions of the three for loops of main
    results_gz_path,         \* main's local: the matches left after the mode filter
    df_list,                 \* main's local: the frames loaded so far
    exc,                     \* the exception that ended the call
    df_acc_diff,             \* main's tables
    stim_acc_diff_df,
    net_acc_diff_df,
    df_acc_diff_by_stim,
    written,                 \* the csv files written, in order
    trainer                  \* what from_config returned

vars == <<source_data_root_exists, net_names, methods, modes, fs, config, pc,
          i, j, k, results_gz_path, df_list, exc, df_acc_diff,
          stim_acc_diff_df, net_acc_diff_df, df_acc_diff_by_stim, written,
          trainer>>

(***************************************************************************)
(* Bounds of the model.                                                    *)
(***************************************************************************)
\* longest net_names list of the dispatch scenarios
MaxNets == 2
\* most rows in one results file of the aggregation scenarios
MaxRows == 4
\* lengths of the methods and modes lists of the dispatch scenarios
ListLens == 0..2
\* accuracy values a row can hold
AccValues == {0, 1}
Stimuli == {"RVvGV", "2_v_5"}
SetSizes == {1, 8}
NetUniverse == {"alexnet", "VGG16", "CORnet_Z", "resnet"}
MethodUniverse == {"transfer", "initialize", "finetune"}
ModeUniverse == {"classify", "detect", "segment"}

(***************************************************************************)
(* Exact fractions.                                                        *)
(***************************************************************************)
Abs(n) == IF n < 0 THEN -n ELSE n

RECURSIVE GCD(_, _)
GCD(a, b) == IF b = 0 THEN a ELSE GCD(b, a % b)

\* n/d in lowest terms, d > 0
Rat(n, d) ==
    LET g == GCD(Abs(n), d)
    IN  <<n \div g, d \div g>>

RatSub(x, y) == Rat(x[1] * y[2] - y[1] * x[2], x[2] * y[2])
RatAdd(x, y) == Rat(x[1] * y[2] + y[1] * x[2], x[2] * y[2])
RatLess(x, y) == x[1] * y[2] < y[1] * x[2]
RatDivInt(x, n) == Rat(x[1], x[2] * n)

RECURSIVE RatSum(_)
\* the sum of a sequence of fractions
RatSum(s) == IF s = <<>> THEN <<0, 1>> ELSE RatAdd(Head(s), RatSum(Tail(s)))

\* Series.mean() of a non-empty sequence of fractions
RatMean(s) == RatDivInt(RatSum(s), Len(s))

SeqsUpTo(S, n) == UNION {[1..m -> S] : m \in 0..n}
Range(s) == {s[n] : n \in DOMAIN s}


(***************************************************************************)
(* Program constants and the results directory.                            *)
(***************************************************************************)
NET_NAMES == <<"alexnet", "VGG16", "CORnet_Z", "CORnet_S">>
METHODS == <<"initialize", "transfer">>

NoExc == [type |-> "none", why |-> "none"]
NoCsv == "undefined"
NoTrainer == [net_name |-> "none"]
NoConfig == [net_name |-> "none"]
NoTable == [index |-> <<>>, columns |-> <<>>, cell |-> <<>>]
CsvFiles == <<"all_csv_filename", "acc_diff_csv_filename",
              "stim_acc_diff_csv_filename", "net_acc_diff_csv_filename",
              "acc_diff_by_stim_csv_filename">>

\* str.__contains__ on the net names of the model: 'CORnet' in net_name
CORnetIn(net_name) == net_name \in {"CORnet_Z", "CORnet_S"}

\* the last component of a path: the tokens after its last "/"
RECURSIVE FileName(_)
FileName(path) ==
    IF \E n \in DOMAIN path : path[n] = "/" THEN FileName(Tail(path)) ELSE path

\* fnmatch of a file name against *{net_name}*{method}*gz
GlobMatch(name, net_name, method) ==
    /\ Len(name) >= 1
    /\ name[Len(name)] = "gz"
    /\ \E a, b \in 1..(Len(name) - 1) :
          a < b /\ name[a] = net_name /\ name[b] = method

\* results_gz_root.glob(f'**/*{net_name}*{method}*gz')
Glob(net_name, method) ==
    {path \in DOMAIN fs : GlobMatch(FileName(path), net_name, method)}

\* 'detect' in str(results_gz)
DetectIn(path) == \E n \in DOMAIN path : path[n] = "detect"

\* the two list comprehensions of the mode branch
ModeFilter(paths, mode) ==
    IF mode = "classify" THEN {path \in paths : ~DetectIn(path)}
    ELSE {path \in paths : DetectIn(path)}

MethodOkAny(method) == TRUE

\* method in METHODS
MethodOk(method) == \E n \in DOMAIN METHODS : METHODS[n] = method

ModeOkClassifyOnly(mode) == mode = "classify"

\* the if / elif of the mode branch has a list comprehension for the mode
ModeOk(mode) == mode = "classify" \/ mode = "detect"

CountOkAtMostOne(paths) == Cardinality(paths) <= 1

\* not (len(results_gz_path) != 1)
CountOk(paths) == Cardinality(paths) = 1

csv_path_for_any(net_name) ==
    IF net_name = "VGG16" THEN "VGG16_split_csv_path"
    ELSE "alexnet_split_csv_path"

\* the if / elif / else that picks the dataset-split csv
csv_path_for(net_name) ==
    IF net_name = "alexnet" \/ CORnetIn(net_name) THEN "alexnet_split_csv_path"
    ELSE IF net_name = "VGG16" THEN "VGG16_split_csv_path"
    ELSE NoCsv

\* searchnets.analysis.searchstims.results_gz_to_df: the rows of the results
\* file, each carrying the net_name, method and mode it was called with
results_gz_to_df(path, csv_path, net_name, method, mode) ==
    [results_gz_path |-> path, csv_path |-> csv_path, net_name |-> net_name,
     method |-> method, mode |-> mode, rows |-> fs[path]]

(***************************************************************************)
(* main: the check of source_data_root and the three nested loops.         *)
(***************************************************************************)
Raise(type, why) ==
    /\ pc' = "raised"
    /\ exc' = [type |-> type, why |-> why]

\* leaving the body of "for method in methods" at (i, j)
NextMethod ==
    IF j < Len(methods) THEN pc' = "method" /\ i' = i /\ j' = j + 1 /\ k' = 0
    ELSE IF i < Len(net_names) THEN pc' = "method" /\ i' = i + 1 /\ j' = 1 /\ k' = 0
    ELSE pc' = "aggregate" /\ i' = i /\ j' = j /\ k' = 0

StartWithoutRootCheck ==
    /\ pc = "start"
    /\ IF net_names = <<>> \/ methods = <<>>
       THEN pc' = "aggregate" /\ exc' = exc /\ UNCHANGED <<i, j>>
       ELSE pc' = "method" /\ i' = 1 /\ j' = 1 /\ exc' = exc
    /\ UNCHANGED <<source_data_root_exists, net_names, methods, modes, fs,
                   config, k, results_gz_path, df_list, df_acc_diff,
                   stim_acc_diff_df, net_acc_diff_df, df_acc_diff_by_stim,
                   written, trainer>>

\* the check of source_data_root, then the first pass of the loops
Start ==
    /\ pc = "start"
    /\ IF ~source_data_root_exists
       THEN /\ Raise("NotADirectoryError", "source_data_root not found")
            /\ UNCHANGED <<i, j>>
       ELSE IF net_names = <<>> \/ methods = <<>>
       THEN pc' = "aggregate" /\ exc' = exc /\ UNCHANGED <<i, j>>
       ELSE pc' = "method" /\ i' = 1 /\ j' = 1 /\ exc' = exc
    /\ UNCHANGED <<source_data_root_exists, net_names, methods, modes, fs,
                   config, k, results_gz_path, df_list, df_acc_diff,
                   stim_acc_diff_df, net_acc_diff_df, df_acc_diff_by_stim,
                   written, trainer>>

\* the head of the body of "for method in methods"
MethodCheck ==
    /\ pc = "method"
    /\ IF ~MethodOk(methods[j])
       THEN Raise("ValueError", "invalid method") /\ UNCHANGED <<i, j, k>>
       ELSE IF modes = <<>>
       THEN NextMethod /\ exc' = exc
       ELSE pc' = "mode" /\ k' = 1 /\ exc' = exc /\ UNCHANGED <<i, j>>
    /\ UNCHANGED <<source_data_root_exists, net_names, methods, modes, fs,
                   config, results_gz_path, df_list, df_acc_diff,
                   stim_acc_diff_df, net_acc_diff_df, df_acc_diff_by_stim,
                   written, trainer>>

\* one pass of the body of "for mode in modes"
ModeIter ==
    /\ pc = "mode"
    /\ LET net_name == net_names[i]
           method == methods[j]
           mode == modes[k]
           globbed == Glob(net_name, method)
           filtered == ModeFilter(globbed, mode)
           path == CHOOSE p \in filtered : TRUE
           csv_path == csv_path_for(net_name)
       IN  IF ~ModeOk(mode)
           THEN /\ Raise("ValueError", "invalid mode")
                /\ results_gz_path' = globbed
                /\ UNCHANGED <<i, j, k, df_list>>
           ELSE IF ~CountOk(filtered)
           THEN /\ Raise("ValueError", "found more than one results.gz file")
                /\ results_gz_path' = filtered
                /\ UNCHANGED <<i, j, k, df_list>>
           ELSE IF filtered = {}
           THEN /\ Raise("IndexError", "list index out of range")
                /\ results_gz_path' = filtered
                /\ UNCHANGED <<i, j, k, df_list>>
           ELSE IF csv_path = NoCsv
           THEN /\ Raise("ValueError", "no csv path defined for net_name")
                /\ results_gz_path' = {path}
                /\ UNCHANGED <<i, j, k, df_list>>
           ELSE /\ results_gz_path' = {path}
                /\ df_list' = Append(df_list,
                       results_gz_to_df(path, csv_path, net_name, method, mode))
                /\ exc' = exc
                /\ IF k < Len(modes)
                   THEN pc' = "mode" /\ k' = k + 1 /\ UNCHANGED <<i, j>>
                   ELSE NextMethod
    /\ UNCHANGED <<source_data_root_exists, net_names, methods, modes, fs,
                   config, df_acc_diff, stim_acc_diff_df, net_acc_diff_df,
                   df_acc_diff_by_stim, written, trainer>>

(***************************************************************************)
(* main: the tables.  A frame is one loaded results file; df_all is the    *)
(* sequence of the frames, in the order pd.concat keeps.                   *)
(***************************************************************************)
\* sorted() of Python on the strings of the model (ASCII order)
StrOrder == <<"2_v_5", "CORnet_S", "CORnet_Z", "RVvGV", "VGG16", "alexnet",
              "resnet">>
StrRank(str) == CHOOSE n \in DOMAIN StrOrder : StrOrder[n] = str

RECURSIVE SortSet(_, _)
\* the elements of S from least to greatest rank (rank: a function on S)
SortSet(S, rank) ==
    IF S = {} THEN <<>>
    ELSE LET x == CHOOSE y \in S : \A z \in S \ {y} : rank[y] < rank[z]
         IN  <<x>> \o SortSet(S \ {x}, rank)

Perms(S) ==
    {s \in [1..Cardinality(S) -> S] :
        \A a, b \in 1..Cardinality(S) : a # b => s[a] # s[b]}

RECURSIVE AccSeq(_)
\* the accuracy column of a set of rows
AccSeq(rows) ==
    IF rows = {} THEN <<>>
    ELSE LET r == CHOOSE x \in rows : TRUE
         IN  <<<<r.accuracy, 1>>>> \o AccSeq(rows \ {r})

RECURSIVE GroupAccs(_, _)
\* the accuracies of the rows of one (net_name, stimulus, set_size) group
GroupAccs(frames, key) ==
    IF frames = <<>> THEN <<>>
    ELSE (IF Head(frames).net_name = key[1]
          THEN AccSeq({r \in Head(frames).rows :
                          r.stimulus = key[2] /\ r.set_size = key[3]})
          ELSE <<>>) \o GroupAccs(Tail(frames), key)

GroupKeys(frames) ==
    UNION {{<<frames[n].net_name, r.stimulus, r.set_size>> : r \in frames[n].rows} :
              n \in DOMAIN frames}

\* pd.concat(df_list)
concat(frames) == frames

df_transfer_unfiltered(all) == all

\* df_all[df_all['method'] == 'transfer']
df_transfer(all) == SelectSeq(all, LAMBDA f : f.method = "transfer")

\* groupby(['net_name', 'stimulus', 'set_size']).agg({'accuracy': 'mean'})
df_transfer_acc_mn(frames) ==
    [key \in GroupKeys(frames) |-> RatMean(GroupAccs(frames, key))]

\* the (net_name, stim) pairs the two unique() loops visit
LoopPairs(mn) == {<<key[1], key[2]>> : key \in DOMAIN mn}

\* df_stim[df_stim['set_size'] == size]['accuracy'].values.item() returns
ItemOk(mn, pair, size) == <<pair[1], pair[2], size>> \in DOMAIN mn

\* acc_diff = set_size_1_acc - set_size_8_acc
acc_diff_of(set_size_1_acc, set_size_8_acc) ==
    RatSub(set_size_1_acc, set_size_8_acc)

\* the record the loop body appends for one (net_name, stim)
AccDiffRecord(mn, pair) ==
    LET set_size_1_acc == mn[<<pair[1], pair[2], 1>>]
        set_size_8_acc == mn[<<pair[1], pair[2], 8>>]
    IN  [net_name |-> pair[1], stimulus |-> pair[2],
         set_size_1_acc |-> set_size_1_acc, set_size_8_acc |-> set_size_8_acc,
         acc_diff |-> acc_diff_of(set_size_1_acc, set_size_8_acc)]

\* the place of a (net_name, stimulus) pair in the order of the group keys
PairRank(pairs) ==
    [p \in pairs |-> StrRank(p[1]) * (Len(StrOrder) + 1) + StrRank(p[2])]

\* pd.DataFrame.from_records(records): the loops visit the groups in key order
AccDiffTable(mn) ==
    LET pairs == SortSet(LoopPairs(mn), PairRank(LoopPairs(mn)))
    IN  [n \in DOMAIN pairs |-> AccDiffRecord(mn, pairs[n])]

Column(table, field) == [n \in DOMAIN table |-> table[n][field]]

\* groupby(['stimulus']).agg({'acc_diff': 'mean', 'set_size_1_acc': 'mean'})
StimGroups(table) ==
    {[stimulus |-> stim,
      acc_diff |-> RatMean(Column(SelectSeq(table, LAMBDA r : r.stimulus = stim),
                                  "acc_diff")),
      set_size_1_acc |->
          RatMean(Column(SelectSeq(table, LAMBDA r : r.stimulus = stim),
                         "set_size_1_acc"))] :
        stim \in {table[n].stimulus : n \in DOMAIN table}}

\* groupby(['net_name']).agg({'acc_diff': 'mean'})
NetGroups(table) ==
    {[net_name |-> net,
      acc_diff |-> RatMean(Column(SelectSeq(table, LAMBDA r : r.net_name = net),
                                  "acc_diff"))] :
        net \in {table[n].net_name : n \in DOMAIN table}}

\* by=['set_size_1_acc', 'acc_diff']
StimKeyLess(x, y) ==
    \/ RatLess(x.set_size_1_acc, y.set_size_1_acc)
    \/ x.set_size_1_acc = y.set_size_1_acc /\ RatLess(x.acc_diff, y.acc_diff)

\* by='acc_diff'
NetKeyLess(x, y) == RatLess(x.acc_diff, y.acc_diff)

\* sort_values(by=..., ascending=False), less the pairs <<x, y>> of rows with
\* the key of x below the key of y: every order of the rows in which no row
\* comes before one of a greater key; rows of equal keys come in any order
sort_values(rows, less) ==
    {s \in Perms(rows) :
        \A a, b \in DOMAIN s : a < b => <<s[a], s[b]>> \notin less}

StrRanks(strs) == [str \in strs |-> StrRank(str)]

\* pivot_table(index='net_name', columns='stimulus'), aggfunc mean, and the
\* to_records / set_index round trip
pivot_table(table) ==
    LET nets == {table[n].net_name : n \in DOMAIN table}
        stims == {table[n].stimulus : n \in DOMAIN table}
        at(net, stim) ==
            SelectSeq(table, LAMBDA r : r.net_name = net /\ r.stimulus = stim)
    IN  [index |-> SortSet(nets, StrRanks(nets)),
         columns |-> SortSet(stims, StrRanks(stims)),
         cell |-> [p \in nets \X stims |->
                      IF at(p[1], p[2]) = <<>> THEN "NaN"
                      ELSE RatMean(Column(at(p[1], p[2]), "acc_diff"))]]

CellAt(table, net, stim) ==
    IF <<net, stim>> \in DOMAIN table.cell THEN table.cell[<<net, stim>>]
    ELSE "NaN"

reindex_skipped(table, labels) == table

\* DataFrame.reindex(labels): the rows in the order of labels
reindex(table, labels) ==
    [index |-> labels, columns |-> table.columns,
     cell |-> [p \in Range(labels) \X Range(table.columns) |->
                  CellAt(table, p[1], p[2])]]

\* df[labels]: the columns in the order of labels
select_columns(table, labels) ==
    [index |-> table.index, columns |-> labels,
     cell |-> [p \in Range(table.index) \X Range(labels) |->
                  CellAt(table, p[1], p[2])]]

\* the tables from pd.concat to the last column selection
Aggregate ==
    /\ pc = "aggregate"
    /\ IF df_list = <<>>
       THEN /\ Raise("ValueError", "No objects to concatenate")
            /\ UNCHANGED <<df_acc_diff, stim_acc_diff_df, net_acc_diff_df,
                           df_acc_diff_by_stim>>
       ELSE LET mn == df_transfer_acc_mn(df_transfer(concat(df_list)))
                table == AccDiffTable(mn)
            IN  IF \E pair \in LoopPairs(mn) :
                      ~ItemOk(mn, pair, 1) \/ ~ItemOk(mn, pair, 8)
                THEN /\ Raise("ValueError",
                              "can only convert an array of size 1 to a Python scalar")
                     /\ UNCHANGED <<df_acc_diff, stim_acc_diff_df,
                                    net_acc_diff_df, df_acc_diff_by_stim>>
                ELSE IF LoopPairs(mn) = {}
                THEN /\ Raise("KeyError", "columns not in index")
                     /\ UNCHANGED <<df_acc_diff, stim_acc_diff_df,
                                    net_acc_diff_df, df_acc_diff_by_stim>>
                ELSE \E stim_sorted \in sort_values(StimGroups(table),
                            {p \in StimGroups(table) \X StimGroups(table) :
                                StimKeyLess(p[1], p[2])}),
                        net_sorted \in sort_values(NetGroups(table),
                            {p \in NetGroups(table) \X NetGroups(table) :
                                NetKeyLess(p[1], p[2])}) :
                        /\ df_acc_diff' = table
                        /\ stim_acc_diff_df' = stim_sorted
                        /\ net_acc_diff_df' = net_sorted
                        /\ df_acc_diff_by_stim' =
                               select_columns(
                                   reindex(pivot_table(table),
                                           Column(net_sorted, "net_name")),
                                   Column(stim_sorted, "stimulus"))
                        /\ pc' = "save"
                        /\ exc' = exc
    /\ UNCHANGED <<source_data_root_exists, net_names, methods, modes, fs,
                   config, i, j, k, results_gz_path, df_list, written, trainer>>

\* the five to_csv calls, one a step
Save ==
    /\ pc = "save"
    /\ written' = Append(written, CsvFiles[Len(written) + 1])
    /\ pc' = IF Len(written) + 1 = Len(CsvFiles) THEN "done" ELSE "save"
    /\ UNCHANGED <<source_data_root_exists, net_names, methods, modes, fs,
                   config, i, j, k, results_gz_path, df_list, exc, df_acc_diff,
                   stim_acc_diff_df, net_acc_diff_df, df_acc_diff_by_stim,
                   trainer>>

(***************************************************************************)
(* Trainer.from_config.                                                    *)
(***************************************************************************)
Unbound == [build |-> "unbound"]
NoMomentum == "default"

\* the if / elif / elif that binds model; no branch binds it for another name
build_model(net_name, num_classes) ==
    IF net_name = "alexnet"
    THEN [build |-> "nets.alexnet.build", pretrained |-> FALSE,
          num_classes |-> num_classes]
    ELSE IF net_name = "VGG16"
    THEN [build |-> "nets.vgg16.build", pretrained |-> FALSE,
          num_classes |-> num_classes]
    ELSE IF net_name = "CORnet_Z"
    THEN [build |-> "nets.cornet.build", pretrained |-> FALSE,
          num_classes |-> num_classes]
    ELSE Unbound

\* the if / elif / elif that fills the optimizers list
make_optimizers(optimizer, learning_rate, momentum) ==
    IF optimizer = "SGD"
    THEN <<[optim |-> "torch.optim.SGD", lr |-> learning_rate,
            momentum |-> momentum]>>
    ELSE IF optimizer = "Adam"
    THEN <<[optim |-> "torch.optim.Adam", lr |-> learning_rate,
            momentum |-> NoMomentum]>>
    ELSE IF optimizer = "AdamW"
    THEN <<[optim |-> "torch.optim.AdamW", lr |-> learning_rate,
            momentum |-> NoMomentum]>>
    ELSE <<>>

\* Trainer.from_config(net_name, num_classes, optimizer=, learning_rate=, momentum=)
from_config ==
    /\ pc = "from_config"
    /\ LET model == build_model(config.net_name, config.num_classes)
       IN  IF model = Unbound
           THEN /\ Raise("UnboundLocalError",
                         "local variable 'model' referenced before assignment")
                /\ trainer' = trainer
           ELSE /\ trainer' = [net_name |-> config.net_name, model |-> model,
                               optimizers |-> make_optimizers(config.optimizer,
                                   config.learning_rate, config.momentum)]
                /\ pc' = "returned"
                /\ exc' = exc
    /\ UNCHANGED <<source_data_root_exists, net_names, methods, modes, fs,
                   config, i, j, k, results_gz_path, df_list, df_acc_diff,
                   stim_acc_diff_df, net_acc_diff_df, df_acc_diff_by_stim,
                   written>>

(***************************************************************************)
(* The inputs.  The dispatch scenarios vary the three lists, the existence *)
(* of source_data_root and the alexnet results files; the aggregation      *)
(* scenarios keep the lists valid and vary the rows of the results files.  *)
(***************************************************************************)
alexnet_transfer == <<"alexnet", "transfer", "gz">>
alexnet_transfer_detect == <<"detect", "/", "alexnet", "transfer", "gz">>
alexnet_transfer_again == <<"rerun", "/", "alexnet", "transfer", "gz">>
alexnet_initialize == <<"alexnet", "initialize", "gz">>
VGG16_transfer == <<"VGG16", "transfer", "gz">>
CORnet_Z_transfer == <<"CORnet_Z", "transfer", "gz">>
resnet_transfer == <<"resnet", "transfer", "gz">>
alexnet_finetune == <<"alexnet", "finetune", "gz">>

RowUniverse == [stimulus : Stimuli, set_size : SetSizes, accuracy : AccValues]
Contents == {rows \in SUBSET RowUniverse : Cardinality(rows) <= MaxRows}
BaseRows == {[stimulus |-> "RVvGV", set_size |-> 1, accuracy |-> 1],
             [stimulus |-> "RVvGV", set_size |-> 8, accuracy |-> 0]}

DispatchFileSystems ==
    {[path \in {VGG16_transfer, CORnet_Z_transfer, resnet_transfer,
                 alexnet_finetune} \cup some |-> BaseRows] :
        some \in SUBSET {alexnet_transfer, alexnet_transfer_detect,
                         alexnet_transfer_again}}

Lists(S) == UNION {[1..n -> S] : n \in ListLens}

MainLocals ==
    /\ pc = "start"
    /\ i = 0 /\ j = 0 /\ k = 0
    /\ results_gz_path = {}
    /\ df_list = <<>>
    /\ exc = NoExc
    /\ df_acc_diff = <<>>
    /\ stim_acc_diff_df = <<>>
    /\ net_acc_diff_df = <<>>
    /\ df_acc_diff_by_stim = NoTable
    /\ written = <<>>
    /\ config = NoConfig
    /\ trainer = NoTrainer

InitDispatch ==
    /\ source_data_root_exists \in BOOLEAN
    /\ net_names \in SeqsUpTo(NetUniverse, MaxNets)
    /\ methods \in Lists(MethodUniverse)
    /\ modes \in Lists(ModeUniverse)
    /\ fs \in DispatchFileSystems
    /\ MainLocals

InitAggregate ==
    /\ source_data_root_exists = TRUE
    /\ modes = <<"classify">>
    /\ \/ /\ net_names = <<"alexnet", "VGG16">>
          /\ methods = <<"transfer">>
          /\ fs \in [{alexnet_transfer, VGG16_transfer} -> Contents]
       \/ /\ net_names = <<"alexnet">>
          /\ methods = <<"initialize", "transfer">>
          /\ fs \in [{alexnet_initialize, alexnet_transfer} -> Contents]
    /\ MainLocals

InitTrainer ==
    /\ config \in [net_name : Range(NET_NAMES) \cup {"resnet"},
                   num_classes : {2, 10},
                   optimizer : {"SGD", "Adam", "AdamW", "RMSprop"},
                   learning_rate : {1, 10},
                   momentum : {5, 9}]
    /\ pc = "from_config"
    /\ source_data_root_exists = FALSE
    /\ net_names = <<>> /\ methods = <<>> /\ modes = <<>>
    /\ fs = <<>>
    /\ i = 0 /\ j = 0 /\ k = 0
    /\ results_gz_path = {}
    /\ df_list = <<>>
    /\ exc = NoExc
    /\ df_acc_diff = <<>>
    /\ stim_acc_diff_df = <<>>
    /\ net_acc_diff_df = <<>>
    /\ df_acc_diff_by_stim = NoTable
    /\ written = <<>>
    /\ trainer = NoTrainer

Init == InitDispatch \/ InitAggregate \/ InitTrainer

Next ==
    \/ Start
    \/ MethodCheck
    \/ ModeIter
    \/ Aggregate
    \/ Save
    \/ from_config

Spec == Init /\ [][Next]_vars

(***************************************************************************)
(* What the properties speak of.                                           *)
(***************************************************************************)
MainRun == config = NoConfig
TablesComputed == pc \in {"save", "done"}
LoopDone == pc \in {"aggregate", "save", "done"}
InModeLoop == k >= 1

NCombos == Len(net_names) * Len(methods) * Len(modes)

\* the n-th (net_name, method, mode) in the order the three loops visit them
Combo(n) ==
    [net_name |-> net_names[((n - 1) \div (Len(methods) * Len(modes))) + 1],
     method |-> methods[(((n - 1) \div Len(modes)) % Len(methods)) + 1],
     mode |-> modes[((n - 1) % Len(modes)) + 1]]

\* the results files that match a combination after the classify/detect filter
Matching(net_name, method, mode) == ModeFilter(Glob(net_name, method), mode)

\* the rows of the 'all' table with method 'transfer', each with its frame
TransferRows ==
    {<<n, r>> \in (DOMAIN df_list) \X RowUniverse :
        df_list[n].method = "transfer" /\ r \in df_list[n].rows}

GroupOf(net, stim, size) ==
    {x \in TransferRows :
        /\ df_list[x[1]].net_name = net
        /\ x[2].stimulus = stim
        /\ x[2].set_size = size}

RECURSIVE SumAccuracy(_)
SumAccuracy(group) ==
    IF group = {} THEN 0
    ELSE LET x == CHOOSE y \in group : TRUE
         IN  x[2].accuracy + SumAccuracy(group \ {x})

MeanAccuracy(group) == Rat(SumAccuracy(group), Cardinality(group))

TransferPairs == {<<df_list[x[1]].net_name, x[2].stimulus>> : x \in TransferRows}

RowsOf(table, pair) ==
    {n \in DOMAIN table :
        table[n].net_name = pair[1] /\ table[n].stimulus = pair[2]}

\* C1: once the tables are computed, acc_diff has exactly one row per
\* (net_name, stimulus) pair of the transfer rows, holding the mean accuracy of
\* the pair's transfer rows at set size 1, the mean at set size 8 and their
\* difference (so no 'initialize' row enters any value); and the 'all' table
\* holds, in order, the rows of every (net_name, method, mode) combination.
C1_AccDiffTable ==
    TablesComputed =>
        /\ \A pair \in TransferPairs : Cardinality(RowsOf(df_acc_diff, pair)) = 1
        /\ \A n \in DOMAIN df_acc_diff :
              LET row == df_acc_diff[n]
                  g1 == GroupOf(row.net_name, row.stimulus, 1)
                  g8 == GroupOf(row.net_name, row.stimulus, 8)
              IN  /\ <<row.net_name, row.stimulus>> \in TransferPairs
                  /\ g1 # {} /\ g8 # {}
                  /\ row.set_size_1_acc = MeanAccuracy(g1)
                  /\ row.set_size_8_acc = MeanAccuracy(g8)
                  /\ row.acc_diff = RatSub(MeanAccuracy(g1), MeanAccuracy(g8))
        /\ Len(concat(df_list)) = NCombos
        /\ \A n \in 1..NCombos :
              /\ concat(df_list)[n].net_name = Combo(n).net_name
              /\ concat(df_list)[n].method = Combo(n).method
              /\ concat(df_list)[n].mode = Combo(n).mode
              /\ concat(df_list)[n].rows = fs[concat(df_list)[n].results_gz_path]

\* a finished run with 'initialize' rows beside the transfer rows, and a mean
\* over two transfer rows of different accuracy
C1_Witness ==
    /\ pc = "done"
    /\ \E n \in DOMAIN df_list :
          /\ df_list[n].method = "initialize"
          /\ \E r \in df_list[n].rows : r.set_size = 1 /\ r.accuracy = 0
    /\ \E n \in DOMAIN df_acc_diff :
          /\ df_acc_diff[n].set_size_1_acc = <<1, 1>>
          /\ df_acc_diff[n].set_size_8_acc = <<1, 2>>
          /\ df_acc_diff[n].acc_diff = <<1, 2>>

\* the mean accuracy of a network across its stimulus types
NetMeanAccuracy(net) ==
    LET rows == SelectSeq(df_acc_diff, LAMBDA r : r.net_name = net)
    IN  RatMean([n \in DOMAIN rows |->
                    RatDivInt(RatAdd(rows[n].set_size_1_acc,
                                     rows[n].set_size_8_acc), 2)])

NoRepeats(s) == \A a, b \in DOMAIN s : a # b => s[a] # s[b]

\* no two rows of net_acc_diff share their sort key, so the sort has no choice
NetKeysDistinct ==
    \A a, b \in DOMAIN net_acc_diff_df :
        a # b => net_acc_diff_df[a].acc_diff # net_acc_diff_df[b].acc_diff

\* no two rows of stim_acc_diff share both sort keys
StimKeysDistinct ==
    \A a, b \in DOMAIN stim_acc_diff_df :
        a # b => \/ stim_acc_diff_df[a].acc_diff # stim_acc_diff_df[b].acc_diff
                 \/ stim_acc_diff_df[a].set_size_1_acc
                        # stim_acc_diff_df[b].set_size_1_acc

\* C2: net_acc_diff has one row per network, and its net names come in the
\* order of their mean accuracy across all stimulus types (greatest first, the
\* direction of the sort).  Stated for the runs whose sort keys are distinct,
\* where the order of the rows does not depend on how the sort breaks ties.
C2_SortedByMeanAccuracy ==
    TablesComputed /\ NetKeysDistinct =>
        /\ NoRepeats(Column(net_acc_diff_df, "net_name"))
        /\ Range(Column(net_acc_diff_df, "net_name"))
               = {df_acc_diff[n].net_name : n \in DOMAIN df_acc_diff}
        /\ \A a, b \in DOMAIN net_acc_diff_df :
              a < b => ~RatLess(NetMeanAccuracy(net_acc_diff_df[a].net_name),
                                NetMeanAccuracy(net_acc_diff_df[b].net_name))

\* C3: stim_acc_diff has one row per stimulus type, and its stimulus types come
\* in increasing order of the mean of acc_diff over the networks.  Stated for
\* the runs whose sort keys are distinct, as C2 is.
C3_SortedByIncreasingAccDiff ==
    TablesComputed /\ StimKeysDistinct =>
        /\ NoRepeats(Column(stim_acc_diff_df, "stimulus"))
        /\ Range(Column(stim_acc_diff_df, "stimulus"))
               = {df_acc_diff[n].stimulus : n \in DOMAIN df_acc_diff}
        /\ \A a, b \in DOMAIN stim_acc_diff_df :
              a < b => ~RatLess(stim_acc_diff_df[b].acc_diff,
                                stim_acc_diff_df[a].acc_diff)

\* C4: acc_diff_by_stim is acc_diff pivoted: its rows are the networks in the
\* order of the rows of net_acc_diff, its columns the stimulus types in the
\* order of the rows of stim_acc_diff, and the cell of every (net_name,
\* stimulus) row of acc_diff holds that row's acc_diff.
C4_Pivot ==
    TablesComputed =>
        /\ df_acc_diff_by_stim.index = Column(net_acc_diff_df, "net_name")
        /\ df_acc_diff_by_stim.columns = Column(stim_acc_diff_df, "stimulus")
        /\ NoRepeats(df_acc_diff_by_stim.index)
        /\ NoRepeats(df_acc_diff_by_stim.columns)
        /\ Range(df_acc_diff_by_stim.index)
               = {df_acc_diff[n].net_name : n \in DOMAIN df_acc_diff}
        /\ Range(df_acc_diff_by_stim.columns)
               = {df_acc_diff[n].stimulus : n \in DOMAIN df_acc_diff}
        /\ \A n \in DOMAIN df_acc_diff :
              df_acc_diff_by_stim.cell[<<df_acc_diff[n].net_name,
                                         df_acc_diff[n].stimulus>>]
                  = df_acc_diff[n].acc_diff

\* a finished run with two networks and two stimulus types, where the sorts
\* put both the rows and the columns in another order than the group keys
C4_Witness ==
    /\ pc = "done"
    /\ df_acc_diff_by_stim.index = <<"alexnet", "VGG16">>
    /\ df_acc_diff_by_stim.columns = <<"RVvGV", "2_v_5">>
    /\ Len(df_acc_diff) = 4
    /\ NetKeysDistinct
    /\ StimKeysDistinct

\* the methods list holds a value outside {"transfer", "initialize"}
BadMethodGiven ==
    \E n \in DOMAIN methods : methods[n] \notin {"transfer", "initialize"}

FrameModesValid ==
    \A n \in DOMAIN df_list :
        /\ df_list[n].mode \in {"classify", "detect"}
        /\ df_list[n].mode = "classify" => ~DetectIn(df_list[n].results_gz_path)
        /\ df_list[n].mode = "detect" => DetectIn(df_list[n].results_gz_path)

\* C6: main loads results for the modes 'classify' and 'detect' and for no
\* other: a pass of the mode loop over another mode raises ValueError, no pass
\* over 'classify' or 'detect' raises for its mode, and the loops never get past
\* another mode; the file loaded for 'classify' has no 'detect' in its path and
\* the file loaded for 'detect' has.
C6_Modes ==
    MainRun =>
        /\ FrameModesValid
        /\ pc = "raised" /\ InModeLoop /\ modes[k] \notin {"classify", "detect"}
               => exc = [type |-> "ValueError", why |-> "invalid mode"]
        /\ pc = "raised" /\ exc.why = "invalid mode"
               => InModeLoop /\ modes[k] \notin {"classify", "detect"}
        /\ LoopDone /\ net_names # <<>> /\ methods # <<>>
               => \A n \in DOMAIN modes : modes[n] \in {"classify", "detect"}

\* a finished run that loaded, for the same net_name and method, one file for
\* 'classify' and another, under detect/, for 'detect'
C6_Witness ==
    /\ pc = "done"
    /\ \E a, b \in DOMAIN df_list :
          /\ df_list[a].mode = "classify"
          /\ df_list[b].mode = "detect"
          /\ df_list[a].net_name = df_list[b].net_name
          /\ df_list[a].results_gz_path = alexnet_transfer
          /\ df_list[b].results_gz_path = alexnet_transfer_detect

\* C7: for every net_name of NET_NAMES and every optimizer of {'SGD', 'Adam',
\* 'AdamW'}, from_config returns a Trainer whose model was built with
\* pretrained=False and the given num_classes and whose optimizers list holds
\* one optimizer, made with the given learning_rate and, for SGD only, the
\* given momentum.
C7_FromConfigBuildsEveryNet ==
    /\ pc \in {"returned", "raised"}
    /\ config # NoConfig
    /\ config.net_name \in Range(NET_NAMES)
    /\ config.optimizer \in {"SGD", "Adam", "AdamW"}
    => /\ pc = "returned"
       /\ trainer.model.pretrained = FALSE
       /\ trainer.model.num_classes = config.num_classes
       /\ Len(trainer.optimizers) = 1
       /\ trainer.optimizers[1].lr = config.learning_rate
       /\ trainer.optimizers[1].momentum =
              IF config.optimizer = "SGD" THEN config.momentum ELSE NoMomentum

\* the frames loaded so far are those of the first combinations, in order
FramesFollowCombos ==
    /\ Len(df_list) <= NCombos
    /\ \A n \in DOMAIN df_list :
          /\ df_list[n].net_name = Combo(n).net_name
          /\ df_list[n].method = Combo(n).method
          /\ df_list[n].mode = Combo(n).mode
          /\ Matching(Combo(n).net_name, Combo(n).method, Combo(n).mode)
                 = {df_list[n].results_gz_path}
          /\ df_list[n].rows = fs[df_list[n].results_gz_path]

\* C8: main loads one results file per combination, the only match of the
\* combination: a pass of the mode loop that finds another number of matches
\* than one (none included) raises ValueError, no csv file is written on a run
\* that raises, and past the loops every combination has its frame.
C8_OneResultsFile ==
    MainRun =>
        /\ FramesFollowCombos
        /\ LoopDone => Len(df_list) = NCombos
        /\ pc = "mode" => Len(df_list) < NCombos /\ Combo(Len(df_list) + 1)
               = [net_name |-> net_names[i], method |-> methods[j],
                  mode |-> modes[k]]
        /\ ( /\ pc = "raised" /\ InModeLoop
             /\ modes[k] \in {"classify", "detect"}
             /\ Cardinality(Matching(net_names[i], methods[j], modes[k])) # 1 )
               => /\ exc = [type |-> "ValueError",
                            why |-> "found more than one results.gz file"]
                  /\ results_gz_path
                         = Matching(net_names[i], methods[j], modes[k])
        /\ pc = "raised" /\ exc.why = "found more than one results.gz file"
               => Cardinality(Matching(net_names[i], methods[j], modes[k])) # 1
        /\ pc = "raised" => written = <<>>

\* a combination with no match at all, after an earlier one was loaded
C8_Witness ==
    /\ pc = "raised"
    /\ exc = [type |-> "ValueError", why |-> "found more than one results.gz file"]
    /\ results_gz_path = {}
    /\ Len(df_list) >= 1

SplitCsvOf(net_name) ==
    IF net_name = "alexnet" \/ net_name \in {"CORnet_Z", "CORnet_S"}
    THEN "alexnet_split_csv_path"
    ELSE "VGG16_split_csv_path"

NetKnown(net_name) == net_name \in {"alexnet", "VGG16", "CORnet_Z", "CORnet_S"}

\* C9: every frame was joined to the split csv of its net_name (alexnet's for
\* 'alexnet' and the CORnet names, VGG16's for 'VGG16'); a pass of the mode loop
\* that comes to pick the csv for another net_name raises ValueError, no frame
\* is ever loaded for such a name, no csv file is written on that run, and the
\* loops never get past such a name.
C9_SplitCsv ==
    MainRun =>
        /\ \A n \in DOMAIN df_list :
              /\ NetKnown(df_list[n].net_name)
              /\ df_list[n].csv_path = SplitCsvOf(df_list[n].net_name)
        /\ ( /\ pc = "raised" /\ InModeLoop
             /\ modes[k] \in {"classify", "detect"}
             /\ Cardinality(Matching(net_names[i], methods[j], modes[k])) = 1
             /\ ~NetKnown(net_names[i]) )
               => /\ exc = [type |-> "ValueError",
                            why |-> "no csv path defined for net_name"]
                  /\ written = <<>>
        /\ pc = "raised" /\ exc.why = "no csv path defined for net_name"
               => ~NetKnown(net_names[i])
        /\ LoopDone /\ methods # <<>> /\ modes # <<>>
               => \A n \in DOMAIN net_names : NetKnown(net_names[n])

\* a CORnet frame joined to alexnet's csv, then 'resnet' stops the run
C9_Witness ==
    /\ pc = "raised"
    /\ exc = [type |-> "ValueError", why |-> "no csv path defined for net_name"]
    /\ net_names[i] = "resnet"
    /\ \E n \in DOMAIN df_list :
          /\ df_list[n].net_name = "CORnet_Z"
          /\ df_list[n].csv_path = "alexnet_split_csv_path"

\* C10: source_data_root is checked before any results file is looked for or
\* read (NotADirectoryError if it is missing); a csv file is written only once
\* every combination is loaded and every table computed, the five in the order
\* of the to_csv calls; a run that raises has written none of them, and a run
\* that ends without raising has written all five.
C10_AllOrNothing ==
    MainRun =>
        /\ ~source_data_root_exists
               => /\ df_list = <<>> /\ results_gz_path = {}
                  /\ pc \in {"start", "raised"}
                  /\ pc = "raised" => exc.type = "NotADirectoryError"
        /\ exc.type = "NotADirectoryError" => ~source_data_root_exists
        /\ written # <<>>
               => /\ TablesComputed
                  /\ Len(df_list) = NCombos
                  /\ df_acc_diff # <<>> /\ stim_acc_diff_df # <<>>
                  /\ net_acc_diff_df # <<>> /\ df_acc_diff_by_stim # NoTable
        /\ Len(written) <= Len(CsvFiles)
        /\ written = SubSeq(CsvFiles, 1, Len(written))
        /\ pc = "raised" => written = <<>>
        /\ pc = "done" => written = CsvFiles /\ exc = NoExc

\* a run that loaded every combination and raised in the tables, a group
\* lacking its set-size-8 mean: nothing was written
C10_Witness ==
    /\ pc = "raised"
    /\ exc.why = "can only convert an array of size 1 to a Python scalar"
    /\ Len(df_list) = 2
    /\ written = <<>>

============================================================================
